---- MODULE Spec2Model ----
(***************************************************************************)
(* A model of libziprand (src/ziprand.c, src/ziprand.h and the I/O helper  *)
(* sources): the byte source, the directory locator and parser behind      *)
(* ziprand_open, the lazily resolved data offset, and the seekable file    *)
(* view (ziprand_fopen / fread / fread_at / fseek / ftell / fclose).       *)
(*                                                                         *)
(* Numbers.  TLC integers are 32 bits wide, the library computes on        *)
(* uint64_t/int64_t.  A 64-bit word is therefore a tuple of four 16-bit    *)
(* limbs, least significant first, and the arithmetic below wraps modulo   *)
(* 2^64 exactly as the C code does.  A 32-bit field is a word whose two    *)
(* upper limbs are zero.                                                   *)
(***************************************************************************)
EXTENDS Integers, Sequences, FiniteSets, TLC

\* a limb holds two bytes
Limb == 256 * 256
HalfLimb == Limb \div 2

\* the null pointer; a record, so that it compares with the records it replaces
NULL == [null |-> TRUE]

----------------------------------------------------------------------------
(* 64-bit words *)

U64Of(n) == <<n % Limb, (n \div Limb) % Limb, 0, 0>>

Zero64 == <<0, 0, 0, 0>>
Max64 == <<Limb - 1, Limb - 1, Limb - 1, Limb - 1>>
MinusOne64 == Max64
Int64Min == <<0, 0, 0, HalfLimb>>
Int64Max == <<Limb - 1, Limb - 1, Limb - 1, HalfLimb - 1>>
Esc32 == <<Limb - 1, Limb - 1, 0, 0>>

U64Add(a, b) ==
    LET s1 == a[1] + b[1]
        s2 == a[2] + b[2] + (s1 \div Limb)
        s3 == a[3] + b[3] + (s2 \div Limb)
        s4 == a[4] + b[4] + (s3 \div Limb)
    IN  <<s1 % Limb, s2 % Limb, s3 % Limb, s4 % Limb>>

U64Not(a) == <<Limb - 1 - a[1], Limb - 1 - a[2], Limb - 1 - a[3], Limb - 1 - a[4]>>

\* unary minus on a 64-bit word (two's complement; -INT64_MIN wraps to itself)
U64Neg(a) == U64Add(U64Not(a), U64Of(1))

U64Sub(a, b) == U64Add(a, U64Neg(b))

U64Lt(a, b) ==
    \/ a[4] < b[4]
    \/ a[4] = b[4] /\ a[3] < b[3]
    \/ a[4] = b[4] /\ a[3] = b[3] /\ a[2] < b[2]
    \/ a[4] = b[4] /\ a[3] = b[3] /\ a[2] = b[2] /\ a[1] < b[1]

U64Le(a, b) == ~U64Lt(b, a)

\* the sign bit of the word read as int64_t
I64Neg(a) == a[4] >= HalfLimb

\* words below 2^31 are the ones a TLC integer can hold
IsSmall(a) == a[4] = 0 /\ a[3] = 0 /\ a[2] < HalfLimb
ToNat(a) == a[1] + Limb * a[2]

Min(x, y) == IF x < y THEN x ELSE y

\* F(v) with v computed once and then named, as a local variable of the C
\* code holds the result of one call
With(v, F(_)) == CHOOSE y \in {F(x) : x \in {v}} : TRUE

----------------------------------------------------------------------------
(* little-endian decoding; a buffer is a sequence of bytes indexed from 0 *)

\* byte i of a buffer; an index past the bytes written into it yields junk
BufAt(buf, i, junk) == IF i >= 0 /\ i < Len(buf) THEN buf[i + 1] ELSE junk

read_u16_le(buf, i, junk) == BufAt(buf, i, junk) + 256 * BufAt(buf, i + 1, junk)

read_u32_le(buf, i, junk) ==
    <<read_u16_le(buf, i, junk), read_u16_le(buf, i + 2, junk), 0, 0>>

read_u64_le(buf, i, junk) ==
    <<read_u16_le(buf, i, junk), read_u16_le(buf, i + 2, junk),
      read_u16_le(buf, i + 4, junk), read_u16_le(buf, i + 6, junk)>>

\* ZIP signatures
EOCD_SIGNATURE == <<19280, 1541, 0, 0>>
ZIP64_EOCD_SIGNATURE == <<19280, 1542, 0, 0>>
ZIP64_EOCD_LOCATOR_SIGNATURE == <<19280, 1798, 0, 0>>
CENTRAL_DIR_SIGNATURE == <<19280, 513, 0, 0>>
LOCAL_HEADER_SIGNATURE == <<19280, 1027, 0, 0>>

----------------------------------------------------------------------------
(* The byte source.  A source is [size, mem]: mem maps some offsets below  *)
(* size to their byte, every other offset below size holds 0.  A fault f   *)
(* says how the source misbehaves during one call: f.kind = "err" makes a  *)
(* read that touches offset f.at return -1, "short" makes it stop before   *)
(* that offset, "size" makes get_size fail.                                *)

SrcByte(s, i) == IF i \in DOMAIN s.mem THEN s.mem[i] ELSE 0

NoFault == [kind |-> "none", at |-> 0]

\* memory_read: clamp to the bytes available at off; pread: -1 or short count.
\* A caller's read callback that serves the archive from inside a larger
\* object adds its start (s.shift, 0 for the helpers) to the offset, in
\* uint64_t arithmetic
io_read(s, f, offset, n) ==
    With(IF s.shift = 0 THEN offset ELSE U64Add(offset, U64Of(s.shift)), LAMBDA off :
    With(IF ~IsSmall(off) \/ ToNat(off) >= s.size THEN 0
         ELSE IF U64Lt(U64Of(s.size - ToNat(off)), n)
              THEN s.size - ToNat(off) ELSE ToNat(n),
         LAMBDA avail :
    With(IF avail = 0 THEN 0 ELSE ToNat(off), LAMBDA o :
    LET hit == avail > 0 /\ f.kind \in {"err", "short"} /\ f.at >= o /\ f.at < o + avail
    IN  IF hit /\ f.kind = "err" THEN [ret |-> -1, data |-> <<>>]
        ELSE With(IF hit THEN f.at - o ELSE avail, LAMBDA cnt :
                  [ret |-> cnt, data |-> [k \in 1..cnt |-> SrcByte(s, o + k - 1)]]))))

io_get_size(s, f) == IF f.kind = "size" THEN -1 ELSE s.size - s.shift

----------------------------------------------------------------------------
(* return codes (ziprand_error_t) *)

ZIPRAND_OK == 0
ZIPRAND_ERR_IO == -1
ZIPRAND_ERR_INVALID_ZIP == -2
ZIPRAND_ERR_NOMEM == -5

\* sizes of the fixed records and of the backward scan
EOCD_CHUNK == 8192
EOCD_MAX_SEARCH == 65557
EOCD_FIXED == 22
ZIP64_LOCATOR_WINDOW == 20
ZIP64_EOCD_FIXED == 56
CD_HEADER_FIXED == 46
LOCAL_HEADER_FIXED == 30

SetMax(S) == CHOOSE x \in S : \A y \in S : y <= x
SetMin(S) == CHOOSE x \in S : \A y \in S : x <= y

----------------------------------------------------------------------------
(* DirectoryLocator *)

\* one completed io.read call of the parser: offset, size asked, return value
ReadCall(off, n, r) == [off |-> off, n |-> n, ret |-> r.ret]

\* buffer[] after a read stored data at its start: bytes beyond the count
\* returned keep what an earlier iteration left there
StoreAtStart(buffer, data) ==
    [k \in 1..(IF Len(buffer) > Len(data) THEN Len(buffer) ELSE Len(data)) |->
        IF k <= Len(data) THEN data[k] ELSE buffer[k]]

\* one iteration of find_eocd's while loop, and the iterations after it;
\* buffer is what the iterations before left in buffer[8192], reads the
\* io.read calls made, oob the buffers read beyond the bytes read into them
RECURSIVE find_eocd_from(_, _, _, _, _, _, _)
find_eocd_from(s, f, junk, file_size, max_search, search_pos, buffer) ==
    IF ~(search_pos > file_size - max_search)
    THEN [err |-> ZIPRAND_ERR_INVALID_ZIP, eocd_offset |-> 0, num_entries |-> 0,
          reads |-> <<>>, oob |-> {}]
    ELSE
      LET span == search_pos - (file_size - max_search)
          chunk_size == IF span > EOCD_CHUNK THEN EOCD_CHUNK ELSE span
          read_pos == search_pos - chunk_size
      IN  With(io_read(s, f, U64Of(read_pos), U64Of(chunk_size)), LAMBDA r :
          With({i \in 0..(r.ret - 4) : /\ r.data[i + 1] = EOCD_SIGNATURE[1] % 256
                                        /\ read_u32_le(r.data, i, junk) = EOCD_SIGNATURE},
               LAMBDA hits :
          LET bytes_read == r.ret
              rd == ReadCall(U64Of(read_pos), U64Of(chunk_size), r)
          IN  IF bytes_read <= 0
              THEN [err |-> ZIPRAND_ERR_IO, eocd_offset |-> 0, num_entries |-> 0,
                    reads |-> <<rd>>, oob |-> {}]
              ELSE IF hits # {}
              THEN LET i == SetMax(hits)
                       eocd_offset == read_pos + i
                       e == io_read(s, f, U64Of(eocd_offset + 10), U64Of(2))
                       rd2 == ReadCall(U64Of(eocd_offset + 10), U64Of(2), e)
                   IN  IF i + 10 < bytes_read
                       THEN [err |-> ZIPRAND_OK, eocd_offset |-> eocd_offset,
                             num_entries |->
                                 read_u16_le(StoreAtStart(buffer, r.data), i + 10, junk),
                             reads |-> <<rd>>,
                             oob |-> IF i + 11 < bytes_read THEN {} ELSE {"chunk"}]
                       ELSE IF e.ret # 2
                       THEN [err |-> ZIPRAND_ERR_IO, eocd_offset |-> eocd_offset,
                             num_entries |-> 0, reads |-> <<rd, rd2>>, oob |-> {}]
                       ELSE [err |-> ZIPRAND_OK, eocd_offset |-> eocd_offset,
                             num_entries |-> read_u16_le(e.data, 0, junk),
                             reads |-> <<rd, rd2>>, oob |-> {}]
              ELSE IF read_pos < 3
              THEN [err |-> ZIPRAND_ERR_INVALID_ZIP, eocd_offset |-> 0, num_entries |-> 0,
                    reads |-> <<rd>>, oob |-> {}]
              ELSE With(StoreAtStart(buffer, r.data), LAMBDA kept :
                   With(find_eocd_from(s, f, junk, file_size, max_search, read_pos, kept),
                        LAMBDA rest : [rest EXCEPT !.reads = <<rd>> \o @]))))

\* find_eocd scanning back to the start of the source
find_eocd_unwindowed(s, f, junk, total_size) ==
    find_eocd_from(s, f, junk, total_size, total_size, total_size, <<>>)

\* buffer[] is uninitialised when the loop starts
find_eocd(s, f, junk, total_size) ==
    LET file_size == total_size
        max_search == IF file_size < EOCD_MAX_SEARCH THEN file_size ELSE EOCD_MAX_SEARCH
    IN  find_eocd_from(s, f, junk, file_size, max_search, file_size, <<>>)

\* the locator loop runs i over 0..16 of search_buf[20] and loads 8 bytes
\* at i + 8: oob records a load that passes the end of the window
read_zip64_eocd(s, f, junk, eocd_offset) ==
    LET search_start == IF eocd_offset > ZIP64_LOCATOR_WINDOW
                        THEN eocd_offset - ZIP64_LOCATOR_WINDOW ELSE 0
    IN  With(io_read(s, f, U64Of(search_start), U64Of(ZIP64_LOCATOR_WINDOW)), LAMBDA w :
        With({i \in 0..16 : read_u32_le(w.data, i, junk) = ZIP64_EOCD_LOCATOR_SIGNATURE},
             LAMBDA hits :
        With(IF hits = {} THEN Zero64 ELSE read_u64_le(w.data, SetMin(hits) + 8, junk),
             LAMBDA zip64_eocd_offset :
        LET rd == ReadCall(U64Of(search_start), U64Of(ZIP64_LOCATOR_WINDOW), w)
            over == IF hits # {} /\ SetMin(hits) + 16 > ZIP64_LOCATOR_WINDOW
                    THEN {"window"} ELSE {}
            fail(e, reads, oob) == [err |-> e, cd_offset |-> Zero64,
                                    num_entries |-> Zero64, reads |-> reads, oob |-> oob]
        IN  IF w.ret # ZIP64_LOCATOR_WINDOW THEN fail(ZIPRAND_ERR_IO, <<rd>>, {})
            ELSE IF zip64_eocd_offset = Zero64
            THEN fail(ZIPRAND_ERR_INVALID_ZIP, <<rd>>, over)
            ELSE With(io_read(s, f, zip64_eocd_offset, U64Of(ZIP64_EOCD_FIXED)), LAMBDA b :
                 LET rd2 == ReadCall(zip64_eocd_offset, U64Of(ZIP64_EOCD_FIXED), b)
                 IN  IF b.ret # ZIP64_EOCD_FIXED THEN fail(ZIPRAND_ERR_IO, <<rd, rd2>>, over)
                     ELSE IF read_u32_le(b.data, 0, junk) # ZIP64_EOCD_SIGNATURE
                     THEN fail(ZIPRAND_ERR_INVALID_ZIP, <<rd, rd2>>, over)
                     ELSE [err |-> ZIPRAND_OK,
                           cd_offset |-> read_u64_le(b.data, 48, junk),
                           num_entries |-> read_u64_le(b.data, 32, junk),
                           reads |-> <<rd, rd2>>, oob |-> over]))))

\* loc is what find_eocd reported, zip64 whether read_zip64_eocd was called
get_cd_info(s, f, junk, total_size) ==
    With(find_eocd(s, f, junk, total_size), LAMBDA loc :
    LET fail(e, reads) == [err |-> e, cd_offset |-> Zero64, num_entries |-> Zero64,
                           reads |-> reads, oob |-> loc.oob, loc |-> loc,
                           zip64 |-> FALSE]
    IN  IF loc.err # ZIPRAND_OK THEN fail(loc.err, loc.reads)
        ELSE With(io_read(s, f, U64Of(loc.eocd_offset), U64Of(EOCD_FIXED)),
                  LAMBDA eocd_buf :
             LET cd_offset_32 == read_u32_le(eocd_buf.data, 16, junk)
                 reads == Append(loc.reads,
                                 ReadCall(U64Of(loc.eocd_offset), U64Of(EOCD_FIXED),
                                          eocd_buf))
             IN  IF eocd_buf.ret # EOCD_FIXED THEN fail(ZIPRAND_ERR_IO, reads)
                 ELSE IF cd_offset_32 = Esc32
                 THEN With(read_zip64_eocd(s, f, junk, loc.eocd_offset), LAMBDA z :
                           [err |-> z.err, cd_offset |-> z.cd_offset,
                            num_entries |-> z.num_entries,
                            reads |-> reads \o z.reads, oob |-> loc.oob \cup z.oob,
                            loc |-> loc, zip64 |-> TRUE])
                 ELSE [err |-> ZIPRAND_OK, cd_offset |-> cd_offset_32,
                       num_entries |-> U64Of(loc.num_entries),
                       reads |-> reads, oob |-> loc.oob, loc |-> loc,
                       zip64 |-> FALSE]))

----------------------------------------------------------------------------
(* DirectoryParser.  An allocation failure is an input of the call: oom    *)
(* names the allocation site that returns NULL (and the entry index it     *)
(* belongs to); calloc0 says whether calloc(0, n) returns NULL.            *)

NoOom == [site |-> "none", idx |-> 0]

\* the while loop over the extra field's sub-records: the position of the
\* first sub-record with id 0x0001, or -1 when the loop ends without one
RECURSIVE zip64_extra_find(_, _, _, _)
zip64_extra_find(extra, extra_len, pos, junk) ==
    IF ~(pos + 4 <= extra_len) THEN -1
    ELSE LET header_id == read_u16_le(extra, pos, junk)
             data_size == read_u16_le(extra, pos + 2, junk)
         IN  IF header_id = 1 THEN pos
             ELSE zip64_extra_find(extra, extra_len, pos + 4 + data_size, junk)

\* the 0x0001 sub-record read as three fixed slots: uncompressed size at 0,
\* compressed size at 8, local header offset at 16
zip64_extra_fill_fixed_slots(extra, pos, junk, unc32, cmp32, loc32) ==
    LET data_size == read_u16_le(extra, pos + 2, junk)
        limit == pos + 4 + data_size
        fp0 == pos + 4
        takeU == unc32 = Esc32 /\ fp0 + 8 <= limit
        takeC == cmp32 = Esc32 /\ fp0 + 16 <= limit
        takeL == loc32 = Esc32 /\ fp0 + 24 <= limit
    IN  [uncompressed_size |-> IF takeU THEN read_u64_le(extra, fp0, junk) ELSE unc32,
         compressed_size |-> IF takeC THEN read_u64_le(extra, fp0 + 8, junk) ELSE cmp32,
         local_offset |-> IF takeL THEN read_u64_le(extra, fp0 + 16, junk) ELSE loc32,
         reach |-> fp0]

\* the three conditional 8-byte loads of the 0x0001 sub-record at pos; reach
\* is the index just past the last byte of extra[] that was loaded
zip64_extra_fill(extra, pos, junk, unc32, cmp32, loc32) ==
    LET data_size == read_u16_le(extra, pos + 2, junk)
        limit == pos + 4 + data_size
        fp0 == pos + 4
        takeU == unc32 = Esc32 /\ fp0 + 8 <= limit
        fp1 == IF takeU THEN fp0 + 8 ELSE fp0
        takeC == cmp32 = Esc32 /\ fp1 + 8 <= limit
        fp2 == IF takeC THEN fp1 + 8 ELSE fp1
        takeL == loc32 = Esc32 /\ fp2 + 8 <= limit
    IN  [uncompressed_size |-> IF takeU THEN read_u64_le(extra, fp0, junk) ELSE unc32,
         compressed_size |-> IF takeC THEN read_u64_le(extra, fp1, junk) ELSE cmp32,
         local_offset |-> IF takeL THEN read_u64_le(extra, fp2, junk) ELSE loc32,
         reach |-> IF takeL THEN fp2 + 8 ELSE fp2]

read_cd_entry(s, f, junk, oom, idx, offset) ==
    LET fail(e, reads) == [err |-> e, entry |-> NULL, offset |-> offset,
                           reads |-> reads, oob |-> {}]
    IN  With(io_read(s, f, offset, U64Of(CD_HEADER_FIXED)), LAMBDA header :
        LET h == header.data
            compression_method == read_u16_le(h, 10, junk)
            filename_len == read_u16_le(h, 28, junk)
            extra_len == read_u16_le(h, 30, junk)
            comment_len == read_u16_le(h, 32, junk)
            cmp32 == read_u32_le(h, 20, junk)
            unc32 == read_u32_le(h, 24, junk)
            loc32 == read_u32_le(h, 42, junk)
            escaped == unc32 = Esc32 \/ cmp32 = Esc32 \/ loc32 = Esc32
            rd == ReadCall(offset, U64Of(CD_HEADER_FIXED), header)
            name_at == U64Add(offset, U64Of(CD_HEADER_FIXED))
            extra_at == U64Add(offset, U64Of(CD_HEADER_FIXED + filename_len))
        IN  IF header.ret # CD_HEADER_FIXED THEN fail(ZIPRAND_ERR_IO, <<rd>>)
            ELSE IF read_u32_le(h, 0, junk) # CENTRAL_DIR_SIGNATURE
            THEN fail(ZIPRAND_ERR_INVALID_ZIP, <<rd>>)
            ELSE IF oom = [site |-> "name", idx |-> idx]
            THEN fail(ZIPRAND_ERR_NOMEM, <<rd>>)
            ELSE
        With(io_read(s, f, name_at, U64Of(filename_len)), LAMBDA name :
        LET rd2 == ReadCall(name_at, U64Of(filename_len), name)
        IN  IF name.ret # filename_len THEN fail(ZIPRAND_ERR_IO, <<rd, rd2>>)
            ELSE IF extra_len > 0 /\ oom = [site |-> "extra", idx |-> idx]
            THEN fail(ZIPRAND_ERR_NOMEM, <<rd, rd2>>)
            ELSE
        With(io_read(s, f, extra_at, U64Of(extra_len)), LAMBDA extra :
        With(IF extra_len > 0 /\ escaped
             THEN zip64_extra_find(extra.data, extra_len, 0, junk) ELSE -1,
             LAMBDA pos :
        With(IF pos >= 0
             THEN zip64_extra_fill(extra.data, pos, junk, unc32, cmp32, loc32)
             ELSE [uncompressed_size |-> unc32, compressed_size |-> cmp32,
                   local_offset |-> loc32, reach |-> 0],
             LAMBDA sz :
        LET reads == IF extra_len > 0
                     THEN <<rd, rd2, ReadCall(extra_at, U64Of(extra_len), extra)>>
                     ELSE <<rd, rd2>>
        IN  IF extra_len > 0 /\ extra.ret # extra_len THEN fail(ZIPRAND_ERR_IO, reads)
            ELSE [err |-> ZIPRAND_OK,
                  entry |-> [name |-> name.data,
                             compressed_size |-> sz.compressed_size,
                             uncompressed_size |-> sz.uncompressed_size,
                             offset |-> sz.local_offset,
                             data_offset |-> Zero64,
                             compression_method |-> compression_method],
                  offset |-> U64Add(offset,
                               U64Of(CD_HEADER_FIXED + filename_len + extra_len
                                     + comment_len)),
                  reads |-> reads,
                  oob |-> IF sz.reach > extra_len THEN {"extra"} ELSE {}])))))

\* the for loop of ziprand_open from index i on; ok is FALSE when an entry fails
RECURSIVE parse_entries(_, _, _, _, _, _, _, _)
parse_entries(s, f, junk, oom, i, num_entries, offset, acc) ==
    IF ~U64Lt(U64Of(i), num_entries)
    THEN [ok |-> TRUE, entries |-> acc, err |-> ZIPRAND_OK, reads |-> <<>>, oob |-> {}]
    ELSE With(read_cd_entry(s, f, junk, oom, i, offset), LAMBDA r :
         IF r.err # ZIPRAND_OK
         THEN [ok |-> FALSE, entries |-> acc, err |-> r.err, reads |-> r.reads,
               oob |-> r.oob]
         ELSE With(Append(acc, r.entry), LAMBDA grown :
              With(parse_entries(s, f, junk, oom, i + 1, num_entries, r.offset, grown),
                   LAMBDA rest : [rest EXCEPT !.reads = r.reads \o @,
                                              !.oob = r.oob \cup @])))

\* calloc(num_entries, sizeof(ziprand_entry_t)) cannot succeed when the
\* product exceeds SIZE_MAX: the largest count with 48-byte entries
MaxCallocCount == <<21845, 21845, 21845, 1365>>

\* ziprand_open returning the archive built so far when an entry fails
ziprand_open_partial(s, f, junk, oom, calloc0) ==
    LET size == io_get_size(s, f)
        cd == get_cd_info(s, f, junk, size)
        parsed == parse_entries(s, f, junk, oom, 0, cd.num_entries, cd.cd_offset, <<>>)
        fail(stage, e) == [archive |-> NULL, stage |-> stage, err |-> e, nparsed |-> 0,
                           cd |-> [err |-> e], reads |-> <<>>, oob |-> {}]
    IN  IF ~s.has_read \/ ~s.has_get_size THEN fail("param", ZIPRAND_OK)
        ELSE IF oom.site = "archive" THEN fail("archive_alloc", ZIPRAND_ERR_NOMEM)
        ELSE IF size < 0 THEN fail("size", ZIPRAND_ERR_IO)
        ELSE IF cd.err # ZIPRAND_OK THEN fail("cd_info", cd.err)
        ELSE IF \/ oom.site = "entries"
                \/ U64Lt(MaxCallocCount, cd.num_entries)
                \/ cd.num_entries = Zero64 /\ calloc0
        THEN fail("entries_alloc", ZIPRAND_ERR_NOMEM)
        ELSE [archive |-> [entries |-> parsed.entries,
                           entry_count |-> U64Of(Len(parsed.entries)),
                           total_size |-> size],
              stage |-> IF parsed.ok THEN "ok" ELSE "entry",
              err |-> parsed.err, nparsed |-> Len(parsed.entries),
              cd |-> cd, reads |-> cd.reads \o parsed.reads,
              oob |-> cd.oob \cup parsed.oob]

\* ziprand_open: the archive it returns (or NULL), the step it returned
\* from, and the internal error code of that step
ziprand_open_result(s, f, junk, oom, calloc0) ==
    LET NoCd == [err |-> ZIPRAND_OK, reads |-> <<>>, oob |-> {}]
        NoEntries == [reads |-> <<>>, oob |-> {}]
        fail(stage, e, n, cd, parsed) ==
            [archive |-> NULL, stage |-> stage, err |-> e, nparsed |-> n,
             cd |-> cd, reads |-> cd.reads \o parsed.reads,
             oob |-> cd.oob \cup parsed.oob]
    IN  IF ~s.has_read \/ ~s.has_get_size
        THEN fail("param", ZIPRAND_OK, 0, NoCd, NoEntries)
        ELSE IF oom.site = "archive"
        THEN fail("archive_alloc", ZIPRAND_ERR_NOMEM, 0, NoCd, NoEntries)
        ELSE With(io_get_size(s, f), LAMBDA size :
        IF size < 0 THEN fail("size", ZIPRAND_ERR_IO, 0, NoCd, NoEntries)
        ELSE With(get_cd_info(s, f, junk, size), LAMBDA cd :
        IF cd.err # ZIPRAND_OK THEN fail("cd_info", cd.err, 0, cd, NoEntries)
        ELSE IF \/ oom.site = "entries"
                \/ U64Lt(MaxCallocCount, cd.num_entries)
                \/ cd.num_entries = Zero64 /\ calloc0
        THEN fail("entries_alloc", ZIPRAND_ERR_NOMEM, 0, cd, NoEntries)
        ELSE With(parse_entries(s, f, junk, oom, 0, cd.num_entries, cd.cd_offset, <<>>),
                  LAMBDA parsed :
        IF ~parsed.ok THEN fail("entry", parsed.err, Len(parsed.entries), cd, parsed)
        ELSE [archive |-> [entries |-> parsed.entries, entry_count |-> cd.num_entries,
                           total_size |-> size],
              stage |-> "ok", err |-> ZIPRAND_OK, nparsed |-> Len(parsed.entries),
              cd |-> cd, reads |-> cd.reads \o parsed.reads,
              oob |-> cd.oob \cup parsed.oob])))

----------------------------------------------------------------------------
(* FileView *)

SEEK_SET == 0
SEEK_CUR == 1
SEEK_END == 2

\* get_data_offset taking the two lengths from where the central directory
\* header keeps them (offsets 28 and 30) instead of the local header's 26, 28
get_data_offset_cd_layout(s, f, junk, entry) ==
    LET local_header == io_read(s, f, entry.offset, U64Of(LOCAL_HEADER_FIXED))
        filename_len == read_u16_le(local_header.data, 28, 0)
        extra_len == read_u16_le(local_header.data, 30, 0)
        rd == <<[off |-> entry.offset, n |-> U64Of(LOCAL_HEADER_FIXED)]>>
    IN  IF local_header.ret # LOCAL_HEADER_FIXED
        THEN [err |-> ZIPRAND_ERR_IO, entry |-> entry, reads |-> rd]
        ELSE IF read_u32_le(local_header.data, 0, junk) # LOCAL_HEADER_SIGNATURE
        THEN [err |-> ZIPRAND_ERR_INVALID_ZIP, entry |-> entry, reads |-> rd]
        ELSE [err |-> ZIPRAND_OK,
              entry |-> [entry EXCEPT !.data_offset =
                            U64Add(entry.offset,
                                   U64Of(LOCAL_HEADER_FIXED + filename_len + extra_len))],
              reads |-> rd]

\* get_data_offset: the entry with data_offset resolved, and the read issued
get_data_offset(s, f, junk, entry) ==
    With(io_read(s, f, entry.offset, U64Of(LOCAL_HEADER_FIXED)), LAMBDA local_header :
    LET filename_len == read_u16_le(local_header.data, 26, junk)
        extra_len == read_u16_le(local_header.data, 28, junk)
        rd == <<[off |-> entry.offset, n |-> U64Of(LOCAL_HEADER_FIXED)]>>
    IN  IF local_header.ret # LOCAL_HEADER_FIXED
        THEN [err |-> ZIPRAND_ERR_IO, entry |-> entry, reads |-> rd]
        ELSE IF read_u32_le(local_header.data, 0, junk) # LOCAL_HEADER_SIGNATURE
        THEN [err |-> ZIPRAND_ERR_INVALID_ZIP, entry |-> entry, reads |-> rd]
        ELSE [err |-> ZIPRAND_OK,
              entry |-> [entry EXCEPT !.data_offset =
                            U64Add(entry.offset,
                                   U64Of(LOCAL_HEADER_FIXED + filename_len + extra_len))],
              reads |-> rd])

\* ziprand_fopen without the test of the compression method
ziprand_fopen_any_method(s, f, junk, oom, arch, e) ==
    LET entry == arch.entries[e]
        g == get_data_offset(s, f, junk, entry)
    IN  IF entry.data_offset = Zero64 /\ g.err # ZIPRAND_OK
        THEN [file |-> NULL, entry |-> g.entry, reads |-> g.reads]
        ELSE LET resolved == IF entry.data_offset = Zero64 THEN g.entry ELSE entry
                 rd == IF entry.data_offset = Zero64 THEN g.reads ELSE <<>>
             IN  IF oom.site = "file"
                 THEN [file |-> NULL, entry |-> resolved, reads |-> rd]
                 ELSE [file |-> [entry |-> e, position |-> Zero64],
                       entry |-> resolved, reads |-> rd]

\* ziprand_fopen on entry e of the archive: the file it returns (or NULL),
\* the entry as the call leaves it, and the source reads it issued
ziprand_fopen_result(s, f, junk, oom, arch, e) ==
    LET entry == arch.entries[e]
    IN  IF entry.compression_method # 0
        THEN [file |-> NULL, entry |-> entry, reads |-> <<>>]
        ELSE With(IF entry.data_offset = Zero64
                  THEN get_data_offset(s, f, junk, entry)
                  ELSE [err |-> ZIPRAND_OK, entry |-> entry, reads |-> <<>>],
                  LAMBDA g :
             IF g.err # ZIPRAND_OK \/ oom.site = "file"
             THEN [file |-> NULL, entry |-> g.entry, reads |-> g.reads]
             ELSE [file |-> [entry |-> e, position |-> Zero64],
                   entry |-> g.entry, reads |-> g.reads])

\* a stored name as strcmp sees it: the bytes before the first NUL
CStr(bytes) ==
    LET nuls == {k \in 1..Len(bytes) : bytes[k] = 0}
    IN  IF nuls = {} THEN bytes ELSE SubSeq(bytes, 1, SetMin(nuls) - 1)

\* the index ziprand_find_entry returns (0 for NULL): first exact match
ziprand_find_entry(arch, name) ==
    LET hits == {i \in 1..Len(arch.entries) : CStr(arch.entries[i].name) = name}
    IN  IF hits = {} THEN 0 ELSE SetMin(hits)

\* ziprand_fread_at taking its offset relative to the view's position
ziprand_fread_at_relative(s, f, arch, file, offset, size) ==
    LET entry == arch.entries[file.entry]
        from == U64Add(file.position, offset)
        remaining == U64Sub(entry.uncompressed_size, from)
        to_read == IF U64Lt(size, remaining) THEN size ELSE remaining
        addr == U64Add(entry.data_offset, from)
        r == io_read(s, f, addr, to_read)
    IN  IF U64Le(entry.uncompressed_size, from)
        THEN [ret |-> 0, data |-> <<>>, reads |-> <<>>]
        ELSE [ret |-> r.ret, data |-> r.data,
              reads |-> <<[off |-> addr, n |-> to_read]>>]

\* ziprand_fread_at without the clamp to the entry's remaining bytes
ziprand_fread_at_unclamped(s, f, arch, file, offset, size) ==
    LET entry == arch.entries[file.entry]
        addr == U64Add(entry.data_offset, offset)
        r == io_read(s, f, addr, size)
    IN  IF U64Le(entry.uncompressed_size, offset)
        THEN [ret |-> 0, data |-> <<>>, reads |-> <<>>]
        ELSE [ret |-> r.ret, data |-> r.data,
              reads |-> <<[off |-> addr, n |-> size]>>]

\* ziprand_fread_at: the int64 result, the bytes stored into the buffer and
\* the source reads issued
ziprand_fread_at_result(s, f, arch, file, offset, size) ==
    LET entry == arch.entries[file.entry]
        remaining == U64Sub(entry.uncompressed_size, offset)
    IN  IF U64Le(entry.uncompressed_size, offset)
        THEN [ret |-> 0, data |-> <<>>, reads |-> <<>>]
        ELSE With(IF U64Lt(size, remaining) THEN size ELSE remaining, LAMBDA to_read :
             With(U64Add(entry.data_offset, offset), LAMBDA addr :
             With(io_read(s, f, addr, to_read), LAMBDA r :
                  [ret |-> r.ret, data |-> r.data,
                   reads |-> <<[off |-> addr, n |-> to_read]>>])))

\* ziprand_fread adding the result to the position without the test
\* result > 0, so that an error result of -1 moves the view back
ziprand_fread_unguarded(s, f, arch, file, size) ==
    LET entry == arch.entries[file.entry]
        remaining == U64Sub(entry.uncompressed_size, file.position)
        to_read == IF U64Lt(size, remaining) THEN size ELSE remaining
        r == IF U64Le(entry.uncompressed_size, file.position)
             THEN [ret |-> 0, data |-> <<>>]
             ELSE io_read(s, f, U64Add(entry.data_offset, file.position), to_read)
        rd == IF U64Le(entry.uncompressed_size, file.position) THEN <<>>
              ELSE <<[off |-> U64Add(entry.data_offset, file.position), n |-> to_read]>>
        delta == IF r.ret >= 0 THEN U64Of(r.ret) ELSE U64Neg(U64Of(-r.ret))
    IN  [ret |-> r.ret, data |-> r.data, reads |-> rd,
         file |-> [file EXCEPT !.position = U64Add(file.position, delta)]]

\* ziprand_fread advancing the position by the requested size
ziprand_fread_by_request(s, f, arch, file, size) ==
    LET entry == arch.entries[file.entry]
        remaining == U64Sub(entry.uncompressed_size, file.position)
        to_read == IF U64Lt(size, remaining) THEN size ELSE remaining
        r == IF U64Le(entry.uncompressed_size, file.position)
             THEN [ret |-> 0, data |-> <<>>]
             ELSE io_read(s, f, U64Add(entry.data_offset, file.position), to_read)
        rd == IF U64Le(entry.uncompressed_size, file.position) THEN <<>>
              ELSE <<[off |-> U64Add(entry.data_offset, file.position), n |-> to_read]>>
    IN  [ret |-> r.ret, data |-> r.data, reads |-> rd,
         file |-> IF r.ret > 0
                  THEN [file EXCEPT !.position = U64Add(file.position, size)]
                  ELSE file]

\* ziprand_fread: the fread_at result at the current position and the file
\* with its position advanced
ziprand_fread_result(s, f, arch, file, size) ==
    With(ziprand_fread_at_result(s, f, arch, file, file.position, size), LAMBDA r :
         [ret |-> r.ret, data |-> r.data, reads |-> r.reads,
          file |-> IF r.ret > 0
                   THEN [file EXCEPT !.position = U64Add(file.position, U64Of(r.ret))]
                   ELSE file])

\* ziprand_fseek: the int64 result as a 64-bit word, and the file after it.
\* -offset is computed in int64_t; for INT64_MIN it wraps to INT64_MIN on the
\* two's-complement targets the library builds for.
ziprand_fseek_result(arch, file, offset, whence) ==
    LET usize == arch.entries[file.entry].uncompressed_size
        back == U64Neg(offset)
        new_pos ==
            IF whence = SEEK_SET THEN offset
            ELSE IF whence = SEEK_CUR
            THEN IF ~I64Neg(offset) THEN U64Add(file.position, offset)
                 ELSE IF U64Lt(file.position, back) THEN Zero64
                 ELSE U64Sub(file.position, back)
            ELSE IF ~I64Neg(offset) THEN U64Add(usize, offset)
                 ELSE IF U64Lt(usize, back) THEN Zero64
                 ELSE U64Sub(usize, back)
    IN  IF whence \notin {SEEK_SET, SEEK_CUR, SEEK_END}
        THEN [ret |-> MinusOne64, file |-> file]
        ELSE IF U64Lt(usize, new_pos)
        THEN [ret |-> MinusOne64, file |-> file]
        ELSE [ret |-> new_pos, file |-> [file EXCEPT !.position = new_pos]]

ziprand_ftell_result(file) == file.position

ziprand_fsize_result(arch, file) == arch.entries[file.entry].uncompressed_size

----------------------------------------------------------------------------
(* Input images: the byte layouts the parser decodes, written out so that  *)
(* the sources of the initial states are real ZIP containers (and broken   *)
(* ones).                                                                  *)

LE16(n) == <<n % 256, n \div 256>>
W32(w) == LE16(w[1]) \o LE16(w[2])
W64(w) == LE16(w[1]) \o LE16(w[2]) \o LE16(w[3]) \o LE16(w[4])
Zeros(n) == [k \in 1..n |-> 0]

ImgLocalHeader(sig, name, extra_len) ==
    W32(sig) \o Zeros(22) \o LE16(Len(name)) \o LE16(extra_len) \o name \o Zeros(extra_len)

ImgCDHeader(sig, method, cmp32, unc32, name, extra, comment_len, loc32) ==
    W32(sig) \o Zeros(6) \o LE16(method) \o Zeros(8) \o W32(cmp32) \o W32(unc32)
    \o LE16(Len(name)) \o LE16(Len(extra)) \o LE16(comment_len) \o Zeros(8)
    \o W32(loc32) \o name \o extra \o Zeros(comment_len)

ImgEOCD(count16, cd_offset32, comment) ==
    W32(EOCD_SIGNATURE) \o Zeros(6) \o LE16(count16) \o Zeros(4) \o W32(cd_offset32)
    \o LE16(Len(comment)) \o comment

ImgZip64EOCD(sig, count64, cd_offset64) ==
    W32(sig) \o Zeros(28) \o W64(count64) \o Zeros(8) \o W64(cd_offset64)

ImgZip64Locator(zip64_eocd_offset) ==
    W32(ZIP64_EOCD_LOCATOR_SIGNATURE) \o Zeros(4) \o W64(zip64_eocd_offset) \o Zeros(4)

\* a ZIP64 extra sub-record (id 0x0001) carrying the given 64-bit values
ImgZip64Extra(values) ==
    LE16(1) \o LE16(8 * Len(values))
    \o (IF Len(values) >= 1 THEN W64(values[1]) ELSE <<>>)
    \o (IF Len(values) >= 2 THEN W64(values[2]) ELSE <<>>)
    \o (IF Len(values) >= 3 THEN W64(values[3]) ELSE <<>>)

\* a source over the given bytes; kind says who built the ziprand_io_t:
\* "helper" (ziprand_io_file / ziprand_io_memory), "custom" (a caller's
\* struct with a close callback) or "noclose" (a caller's struct without)
ImgSource(bytes, kind, fault_ats, view_fault_ats) ==
    [size |-> Len(bytes),
     mem |-> [i \in {j \in 0..(Len(bytes) - 1) : bytes[j + 1] # 0} |-> bytes[i + 1]],
     has_read |-> TRUE, has_get_size |-> TRUE,
     has_close |-> kind # "noclose",
     helper |-> kind = "helper",
     shift |-> 0,
     fault_ats |-> fault_ats,
     view_fault_ats |-> view_fault_ats]

NameA == <<97>>
NameB == <<98>>
NameC == <<99>>
DataA == <<104, 105, 33>>
DataB == <<7, 9>>

\* two stored entries "a" (3 bytes) and "b" (2 bytes), and a deflated "c";
\* the local header of "a" carries 2 extra bytes its directory entry lacks
PlainLocalA == ImgLocalHeader(LOCAL_HEADER_SIGNATURE, NameA, 2) \o DataA
PlainLocalB == ImgLocalHeader(LOCAL_HEADER_SIGNATURE, NameB, 0) \o DataB
PlainLocalC == ImgLocalHeader(LOCAL_HEADER_SIGNATURE, NameC, 0) \o <<1>>
PlainCDOffset == Len(PlainLocalA) + Len(PlainLocalB) + Len(PlainLocalC)
PlainCD ==
    ImgCDHeader(CENTRAL_DIR_SIGNATURE, 0, U64Of(3), U64Of(3), NameA, <<>>, 0, U64Of(0))
    \o ImgCDHeader(CENTRAL_DIR_SIGNATURE, 0, U64Of(2), U64Of(2), NameB, <<>>, 1,
                   U64Of(Len(PlainLocalA)))
    \o ImgCDHeader(CENTRAL_DIR_SIGNATURE, 8, U64Of(1), U64Of(5), NameC, <<>>, 0,
                   U64Of(Len(PlainLocalA) + Len(PlainLocalB)))
PlainBytes ==
    PlainLocalA \o PlainLocalB \o PlainLocalC \o PlainCD
    \o ImgEOCD(3, U64Of(PlainCDOffset), <<>>)
\* one offset inside every record the library reads
PlainFaults ==
    {2, 34, Len(PlainLocalA) + 3, PlainCDOffset + 5, PlainCDOffset + 46,
     PlainCDOffset + 50, Len(PlainBytes) - 3}

\* "a" declares 2^64 - 1 uncompressed bytes through a ZIP64 extra field,
\* "b" has a local header with a foreign signature, the local header offset
\* of "c" lies past the end of the source
OddLocalA == ImgLocalHeader(LOCAL_HEADER_SIGNATURE, NameA, 0) \o DataB
OddLocalB == ImgLocalHeader(CENTRAL_DIR_SIGNATURE, NameB, 0) \o <<1>>
OddCDOffset == Len(OddLocalA) + Len(OddLocalB)
OddCD ==
    ImgCDHeader(CENTRAL_DIR_SIGNATURE, 0, U64Of(2), Esc32, NameA,
                LE16(7) \o LE16(1) \o <<0>> \o ImgZip64Extra(<<Max64>>), 0, U64Of(0))
    \o ImgCDHeader(CENTRAL_DIR_SIGNATURE, 0, U64Of(1), U64Of(1), NameB, <<>>, 0,
                   U64Of(Len(OddLocalA)))
    \o ImgCDHeader(CENTRAL_DIR_SIGNATURE, 0, U64Of(1), U64Of(1), NameC, <<>>, 0,
                   <<Limb - 1, HalfLimb - 1, 0, 0>>)
OddBytes == OddLocalA \o OddLocalB \o OddCD \o ImgEOCD(3, U64Of(OddCDOffset), <<33, 33>>)
OddFaults == {3, OddCDOffset + 3, OddCDOffset + 50, Len(OddBytes) - 20}

\* one stored entry behind ZIP64 directory records
Z64LocalA == ImgLocalHeader(LOCAL_HEADER_SIGNATURE, NameA, 0) \o DataA
Z64CD ==
    ImgCDHeader(CENTRAL_DIR_SIGNATURE, 0, U64Of(3), U64Of(3), NameA, <<>>, 0, U64Of(0))
Z64Tail ==
    ImgZip64Locator(U64Of(Len(Z64LocalA) + Len(Z64CD))) \o ImgEOCD(65535, Esc32, <<>>)
Z64Bytes ==
    Z64LocalA \o Z64CD
    \o ImgZip64EOCD(ZIP64_EOCD_SIGNATURE, U64Of(1), U64Of(Len(Z64LocalA))) \o Z64Tail
\* the same container with a foreign signature on its ZIP64 EOCD record
Z64BadBytes ==
    Z64LocalA \o Z64CD
    \o ImgZip64EOCD(EOCD_SIGNATURE, U64Of(1), U64Of(Len(Z64LocalA))) \o Z64Tail
Z64Faults ==
    {Len(Z64LocalA) + 1, Len(Z64LocalA) + Len(Z64CD) + 1,
     Len(Z64LocalA) + Len(Z64CD) + 57, Len(Z64Bytes) - 1}

\* the directory announces one entry more than it holds
BadCDBytes ==
    PlainLocalA \o PlainLocalB \o PlainLocalC \o PlainCD
    \o ImgEOCD(4, U64Of(PlainCDOffset), <<>>)

EmptyBytes == ImgEOCD(0, U64Of(0), <<>>)

\* an empty archive whose archive comment puts the record at offset 0 and
\* the first scan chunk at offset 2: the signature lies across its start
StraddleCommentLen == EOCD_CHUNK - EOCD_FIXED + 2
StraddleBytes == ImgEOCD(0, U64Of(0), Zeros(StraddleCommentLen))

\* an empty archive whose record fills the 11 bytes of the last scan chunk
\* exactly up to the low byte of its entry count; the comment starts 0xFF
CountEdgeCommentLen == EOCD_CHUNK - 11
CountEdgeBytes == ImgEOCD(0, U64Of(0), <<255>> \o Zeros(CountEdgeCommentLen - 1))

\* a source that ends 11 bytes into an end record
CutEOCDBytes == SubSeq(ImgEOCD(1, U64Of(0), <<>>), 1, 11)

\* the ZIP64 container of Z64Bytes with other legacy fields in its end
\* record: only the 16-bit count saturated, only the 32-bit offset saturated
Z64Front ==
    Z64LocalA \o Z64CD
    \o ImgZip64EOCD(ZIP64_EOCD_SIGNATURE, U64Of(1), U64Of(Len(Z64LocalA)))
    \o ImgZip64Locator(U64Of(Len(Z64LocalA) + Len(Z64CD)))
Z64CountOnlyBytes == Z64Front \o ImgEOCD(65535, U64Of(Len(Z64LocalA)), <<>>)
Z64OffsetOnlyBytes == Z64Front \o ImgEOCD(1, Esc32, <<>>)

\* a ZIP64 end record whose locator signature sits 5 bytes into the 20
\* bytes before the end record
LateLocatorBytes ==
    ImgZip64EOCD(ZIP64_EOCD_SIGNATURE, U64Of(0), U64Of(0)) \o Zeros(5)
    \o W32(ZIP64_EOCD_LOCATOR_SIGNATURE) \o Zeros(11) \o ImgEOCD(65535, Esc32, <<>>)

\* sources without an end record: of 0, 2 and 21 bytes, and of 65560 bytes
\* with the four signature bytes at offset 0, before the scanned window
NoSigShortBytes == <<80, 75, 5>> \o Zeros(18)
NoSigLongBytes == W32(EOCD_SIGNATURE) \o Zeros(EOCD_MAX_SEARCH - 1)

\* the three values a ZIP64 extra sub-record carries in this image
EscValueA == <<11, 0, 1, 0>>
EscValueB == <<22, 0, 0, 0>>
EscValueC == <<33, 1, 0, 0>>
EscValues == <<EscValueA, EscValueB, EscValueC>>
\* the 32-bit values of the fields that are not escaped
EscPlainUnc == U64Of(5)
EscPlainCmp == U64Of(6)
EscPlainLoc == U64Of(7)

\* which of uncompressed size, compressed size and local header offset an
\* entry escapes, and how many foreign sub-records precede the 0x0001 one
EscCases ==
    <<[u |-> TRUE, c |-> FALSE, l |-> FALSE, pre |-> 0],
      [u |-> FALSE, c |-> TRUE, l |-> FALSE, pre |-> 1],
      [u |-> FALSE, c |-> FALSE, l |-> TRUE, pre |-> 0],
      [u |-> TRUE, c |-> TRUE, l |-> FALSE, pre |-> 2],
      [u |-> TRUE, c |-> FALSE, l |-> TRUE, pre |-> 1],
      [u |-> FALSE, c |-> TRUE, l |-> TRUE, pre |-> 0],
      [u |-> TRUE, c |-> TRUE, l |-> TRUE, pre |-> 1],
      [u |-> FALSE, c |-> FALSE, l |-> FALSE, pre |-> 0]>>

EscCount(c) == (IF c.u THEN 1 ELSE 0) + (IF c.c THEN 1 ELSE 0) + (IF c.l THEN 1 ELSE 0)

\* a foreign sub-record: id 0x7075, 3 bytes of data
ImgForeignExtra == LE16(28789) \o LE16(3) \o <<1, 0, 2>>

ImgEscEntry(c) ==
    ImgCDHeader(CENTRAL_DIR_SIGNATURE, 0,
                IF c.c THEN Esc32 ELSE EscPlainCmp,
                IF c.u THEN Esc32 ELSE EscPlainUnc,
                NameA,
                (IF c.pre >= 1 THEN ImgForeignExtra ELSE <<>>)
                \o (IF c.pre >= 2 THEN ImgForeignExtra ELSE <<>>)
                \o ImgZip64Extra(SubSeq(EscValues, 1, EscCount(c))),
                0,
                IF c.l THEN Esc32 ELSE EscPlainLoc)

RECURSIVE ImgEscEntries(_)
ImgEscEntries(k) ==
    IF k > Len(EscCases) THEN <<>> ELSE ImgEscEntry(EscCases[k]) \o ImgEscEntries(k + 1)

EscBytes == ImgEscEntries(1) \o ImgEOCD(Len(EscCases), U64Of(0), <<>>)

EscSource == ImgSource(EscBytes, "helper", {50}, {})

\* one entry that escapes its uncompressed size; its extra field is the 4
\* header bytes of a 0x0001 sub-record announcing 8 bytes of data
ShortExtraBytes ==
    ImgCDHeader(CENTRAL_DIR_SIGNATURE, 0, U64Of(1), Esc32, NameA,
                LE16(1) \o LE16(8), 0, U64Of(0))
    \o ImgEOCD(1, U64Of(0), <<>>)

\* entries whose names repeat, differ in case only, or hold a zero byte:
\* "b\0c", "a", "A", "a", "b"; all stored, all without content
NameUpperA == <<65>>
NameWithNul == <<98, 0, 99>>
DupNames == <<NameWithNul, NameA, NameUpperA, NameA, NameB>>
RECURSIVE ImgDupEntries(_)
ImgDupEntries(k) ==
    IF k > Len(DupNames) THEN <<>>
    ELSE ImgCDHeader(CENTRAL_DIR_SIGNATURE, 0, U64Of(0), U64Of(0), DupNames[k], <<>>, 0,
                     U64Of(0))
         \o ImgDupEntries(k + 1)
DupLocal == ImgLocalHeader(LOCAL_HEADER_SIGNATURE, NameA, 0)
DupBytes ==
    DupLocal \o ImgDupEntries(1) \o ImgEOCD(Len(DupNames), U64Of(Len(DupLocal)), <<>>)

\* the part from offset 2^32 on of a source of more than 4 GiB: the local
\* header of a stored entry "a" with 2 extra bytes, and its 3 bytes
RaceBase == <<0, 0, 1, 0>>
RaceLocalBytes == ImgLocalHeader(LOCAL_HEADER_SIGNATURE, NameA, 2) \o DataA
RaceSource == ImgSource(RaceLocalBytes, "helper", {}, {})

\* an archive served from offset 33 of a larger object by a caller's read
\* callback: one stored entry "a" of 3 bytes whose 64-bit local header
\* offset is 2^64 - 33, the local header (33 bytes with its name and 2
\* extra bytes) lying just before the archive
WrapLocal == ImgLocalHeader(LOCAL_HEADER_SIGNATURE, NameA, 2)
WrapOffset == U64Neg(U64Of(Len(WrapLocal)))
WrapCD ==
    ImgCDHeader(CENTRAL_DIR_SIGNATURE, 0, U64Of(3), U64Of(3), NameA,
                ImgZip64Extra(<<WrapOffset>>), 0, Esc32)
WrapBytes == WrapLocal \o WrapCD \o ImgEOCD(1, U64Of(0), <<>>)
WrapSource ==
    [ImgSource(WrapBytes, "custom", {}, {}) EXCEPT !.shift = Len(WrapLocal)]

\* the sources a run may start from
Sources ==
    <<ImgSource(PlainBytes, "helper", PlainFaults, {34}),
      ImgSource(OddBytes, "helper", OddFaults, {3}),
      ImgSource(Z64Bytes, "helper", Z64Faults, {32}),
      ImgSource(Z64BadBytes, "helper", {1}, {}),
      ImgSource(BadCDBytes, "helper", {PlainCDOffset + 5}, {}),
      ImgSource(EmptyBytes, "helper", {1}, {}),
      ImgSource(EmptyBytes, "custom", {}, {}),
      ImgSource(EmptyBytes, "noclose", {}, {}),
      ImgSource(<<80, 75, 5, 7, 1>>, "helper", {1}, {}),
      ImgSource(StraddleBytes, "helper", {}, {}),
      ImgSource(CountEdgeBytes, "helper", {}, {}),
      ImgSource(CutEOCDBytes, "helper", {}, {}),
      ImgSource(Z64CountOnlyBytes, "helper", {Len(Z64CountOnlyBytes) - 1}, {}),
      ImgSource(Z64OffsetOnlyBytes, "helper", {Len(Z64OffsetOnlyBytes) - 30}, {}),
      ImgSource(LateLocatorBytes, "helper", {}, {}),
      ImgSource(<<>>, "helper", {}, {}),
      ImgSource(<<80, 75>>, "helper", {1}, {}),
      ImgSource(NoSigShortBytes, "helper", {20}, {}),
      ImgSource(NoSigLongBytes, "helper", {EOCD_MAX_SEARCH}, {}),
      EscSource,
      ImgSource(ShortExtraBytes, "helper", {}, {}),
      ImgSource(DupBytes, "helper", {Len(DupLocal) + 47}, {}),
      RaceSource,
      WrapSource>>

\* the sources of the runs that go on to open and read views
ViewSources == (1..9) \cup {i \in DOMAIN Sources : Sources[i] = WrapSource}

----------------------------------------------------------------------------
(* Bounds of the model *)

\* read sizes 0..MaxChunk (and SIZE_MAX), read offsets 0..MaxChunk + 1
MaxChunk == 2
\* seek offsets -MaxSeek..MaxSeek (and the extreme int64 values); positions
\* are followed while they stay within MaxSeek of 0, of 2^63 or of 2^64
MaxSeek == 3
\* entry indices an allocation failure may name
MaxOomIdx == 1
\* entries of an archive the caller may open by index
MaxEntries == 3

\* threads that call ziprand_fopen on one entry at the same time
MaxThreads == 2

\* the caller holds one view at a time (it may close it and open another)
Handles == {1}

Tracked(p) ==
    \/ U64Le(p, U64Of(MaxSeek))
    \/ U64Le(U64Neg(U64Of(MaxSeek)), p)
    \/ U64Le(U64Sub(Int64Min, U64Of(MaxSeek)), p) /\ U64Le(p, U64Add(Int64Min, U64Of(MaxSeek)))

\* how the source may misbehave while ziprand_open runs
Faults(s) ==
    {NoFault, [kind |-> "size", at |-> 0]}
    \cup {[kind |-> k, at |-> a] : k \in {"err", "short"}, a \in s.fault_ats}

\* how it may misbehave while a view is opened or read
ReadFaults(s) ==
    {NoFault} \cup {[kind |-> k, at |-> a] : k \in {"err", "short"}, a \in s.view_fault_ats}

Ooms ==
    {NoOom, [site |-> "archive", idx |-> 0], [site |-> "entries", idx |-> 0]}
    \cup {[site |-> st, idx |-> i] : st \in {"name", "extra"}, i \in 0..MaxOomIdx}

JunkBytes == {0, 255}

\* the environments of one ziprand_open call: at most one of the source
\* fault, the allocation failure, calloc(0) = NULL and the junk byte departs
\* from the quiet case
OpenEnvs(s) ==
    {[f |-> f, junk |-> 0, oom |-> NoOom, calloc0 |-> FALSE] : f \in Faults(s)}
    \cup {[f |-> NoFault, junk |-> 0, oom |-> o, calloc0 |-> FALSE] : o \in Ooms}
    \cup {[f |-> NoFault, junk |-> j, oom |-> NoOom, calloc0 |-> c] :
              j \in JunkBytes, c \in BOOLEAN}

\* the environments of one ziprand_fopen call
FopenEnvs(s) ==
    {[f |-> f, junk |-> 0, oom |-> NoOom] : f \in ReadFaults(s)}
    \cup {[f |-> NoFault, junk |-> 0, oom |-> [site |-> "file", idx |-> 0]]}

ReadSizes == {U64Of(n) : n \in 0..MaxChunk} \cup {Max64}
ReadOffsets == {U64Of(n) : n \in 0..(MaxChunk + 1)} \cup {Int64Min, Max64}
SeekOffsets ==
    {U64Of(n) : n \in 0..MaxSeek} \cup {U64Neg(U64Of(n)) : n \in 1..MaxSeek}
    \cup {Int64Min, Int64Max}
Whences == {SEEK_SET, SEEK_CUR, SEEK_END, 3}
Names == {NameA, NameB, NameC, <<100>>, NameUpperA}

----------------------------------------------------------------------------
(* State *)

VARIABLES
    source,      \* which of Sources is handed to ziprand_open
    phase,       \* "fresh": no archive yet, "open", "closed": after ziprand_close
    archive,     \* the ziprand_archive_t, or NULL
    files,       \* handle -> ziprand_file_t [entry, position], or NULL
    closeCalls,  \* how often the source's close callback ran on its context
    ioFreed,     \* ziprand_io_free has released the helper-built ziprand_io_t
    call,        \* the last API call: its inputs, results, and pre-state
    loop,        \* the sequential read loop of the caller (README example 2)
    race,        \* the threads that call ziprand_fopen on one entry at once
    opened       \* the entries a ziprand_fopen of this archive has succeeded on

vars == <<source, phase, archive, files, closeCalls, ioFreed, call, loop, race, opened>>

\* the byte source, its callbacks and its content
src == Sources[source]

NoCall == [op |-> "none"]
NoLoop == [st |-> "idle"]
NoRace == [build |-> "none"]

Init ==
    /\ source \in ViewSources
    /\ phase = "fresh"
    /\ archive = NULL
    /\ files = [h \in Handles |-> NULL]
    /\ closeCalls = 0
    /\ ioFreed = FALSE
    /\ call = NoCall
    /\ loop = NoLoop
    /\ race = NoRace
    /\ opened = {}

----------------------------------------------------------------------------
(* Archive lifecycle *)

ziprand_open(f, junk, oom, calloc0) ==
    /\ phase = "fresh"
    /\ ~ioFreed
    /\ \E r \in {ziprand_open_result(src, f, junk, oom, calloc0)} :
           /\ archive' = r.archive
           /\ phase' = IF r.archive = NULL THEN "fresh" ELSE "open"
           /\ call' = [op |-> "open", ok |-> r.archive # NULL, stage |-> r.stage,
                       err |-> r.err, nparsed |-> r.nparsed,
                       preCloseCalls |-> closeCalls,
                       f |-> f, junk |-> junk, oom |-> oom, calloc0 |-> calloc0,
                       cd |-> r.cd, reads |-> r.reads, oob |-> r.oob]
    /\ opened' = {}
    /\ UNCHANGED <<source, race, files, closeCalls, ioFreed, loop>>

\* the caller closes its views first: a view must not outlive its archive
ziprand_close ==
    /\ phase = "open"
    /\ \A h \in Handles : files[h] = NULL
    /\ closeCalls' = IF src.has_close THEN closeCalls + 1 ELSE closeCalls
    /\ archive' = NULL
    /\ phase' = "closed"
    /\ call' = [op |-> "close"]
    /\ UNCHANGED <<source, race, opened, files, ioFreed, loop>>

\* ziprand_io_free on the ziprand_io_t a helper allocated, once the archive
\* (if any) is closed
ziprand_io_free ==
    /\ src.helper
    /\ ~ioFreed
    /\ phase # "open"
    /\ closeCalls' = IF src.has_close THEN closeCalls + 1 ELSE closeCalls
    /\ ioFreed' = TRUE
    /\ call' = [op |-> "io_free"]
    /\ UNCHANGED <<source, race, opened, phase, archive, files, loop>>

\* ziprand_get_entry_count: -1 for a NULL archive
ziprand_get_entry_count_result(arch) ==
    IF arch = NULL THEN MinusOne64 ELSE arch.entry_count

ziprand_get_entry_count ==
    /\ phase \in {"fresh", "open"}
    /\ call' = [op |-> "get_entry_count", ret |-> ziprand_get_entry_count_result(archive)]
    /\ UNCHANGED <<source, race, opened, phase, archive, files, closeCalls, ioFreed, loop>>

\* a lookup by name on the open archive
find_entry_call(name) ==
    /\ phase = "open"
    /\ call' = [op |-> "find_entry", name |-> name,
                e |-> ziprand_find_entry(archive, name)]
    /\ UNCHANGED <<source, race, opened, phase, archive, files, closeCalls, ioFreed, loop>>

----------------------------------------------------------------------------
(* File views *)

FreeHandles == {h \in Handles : files[h] = NULL}
OpenHandles == {h \in Handles : files[h] # NULL}

\* the state change shared by ziprand_fopen and ziprand_fopen_by_name
FopenInto(h, e, f, junk, oom, op, name) ==
    \E r \in {ziprand_fopen_result(src, f, junk, oom, archive, e)} :
        /\ archive' = [archive EXCEPT !.entries[e] = r.entry]
        /\ files' = IF r.file = NULL THEN files ELSE [files EXCEPT ![h] = r.file]
        /\ opened' = IF r.file = NULL THEN opened ELSE opened \cup {e}
        /\ call' = [op |-> op, h |-> h, e |-> e, name |-> name, ok |-> r.file # NULL,
                    reads |-> r.reads, preEntry |-> archive.entries[e],
                    preOpened |-> e \in opened]

ziprand_fopen(h, e, f, junk, oom) ==
    /\ phase = "open"
    /\ FreeHandles # {}
    /\ h = SetMin(FreeHandles)
    /\ e \in 1..Len(archive.entries)
    /\ FopenInto(h, e, f, junk, oom, "fopen", <<>>)
    /\ UNCHANGED <<source, race, phase, closeCalls, ioFreed, loop>>

ziprand_fopen_by_name(h, name, f, junk, oom) ==
    /\ phase = "open"
    /\ FreeHandles # {}
    /\ h = SetMin(FreeHandles)
    /\ \E e \in {ziprand_find_entry(archive, name)} :
           IF e = 0
           THEN /\ call' = [op |-> "fopen_by_name", h |-> h, e |-> 0, name |-> name,
                            ok |-> FALSE, reads |-> <<>>, preEntry |-> NULL,
                            preOpened |-> FALSE]
                /\ UNCHANGED <<archive, files, opened>>
           ELSE FopenInto(h, e, f, junk, oom, "fopen_by_name", name)
    /\ UNCHANGED <<source, race, phase, closeCalls, ioFreed, loop>>

ziprand_fread(h, size, f) ==
    /\ phase = "open"
    /\ files[h] # NULL
    /\ \E r \in {ziprand_fread_result(src, f, archive, files[h], size)} :
           /\ Tracked(r.file.position)
           /\ files' = [files EXCEPT ![h] = r.file]
           /\ call' = [op |-> "fread", h |-> h, size |-> size, fault |-> f,
                       ret |-> r.ret, data |-> r.data, reads |-> r.reads,
                       pre |-> files[h]]
    /\ UNCHANGED <<source, race, opened, phase, archive, closeCalls, ioFreed, loop>>

ziprand_fread_at(h, offset, size, f) ==
    /\ phase = "open"
    /\ files[h] # NULL
    /\ \E r \in {ziprand_fread_at_result(src, f, archive, files[h], offset, size)} :
           call' = [op |-> "fread_at", h |-> h, offset |-> offset, size |-> size,
                    fault |-> f, ret |-> r.ret, data |-> r.data, reads |-> r.reads,
                    pre |-> files[h]]
    /\ UNCHANGED <<source, race, opened, phase, archive, files, closeCalls, ioFreed, loop>>

ziprand_fseek(h, offset, whence) ==
    /\ phase = "open"
    /\ files[h] # NULL
    /\ \E r \in {ziprand_fseek_result(archive, files[h], offset, whence)} :
           /\ Tracked(r.file.position)
           /\ files' = [files EXCEPT ![h] = r.file]
           /\ call' = [op |-> "fseek", h |-> h, offset |-> offset, whence |-> whence,
                       ret |-> r.ret, pre |-> files[h]]
    /\ UNCHANGED <<source, race, opened, phase, archive, closeCalls, ioFreed, loop>>

ziprand_ftell(h) ==
    /\ phase = "open"
    /\ files[h] # NULL
    /\ call' = [op |-> "ftell", h |-> h, ret |-> ziprand_ftell_result(files[h])]
    /\ UNCHANGED <<source, race, opened, phase, archive, files, closeCalls, ioFreed, loop>>

ziprand_fsize(h) ==
    /\ phase = "open"
    /\ files[h] # NULL
    /\ call' = [op |-> "fsize", h |-> h,
                ret |-> ziprand_fsize_result(archive, files[h])]
    /\ UNCHANGED <<source, race, opened, phase, archive, files, closeCalls, ioFreed, loop>>

ziprand_fclose(h) ==
    /\ files[h] # NULL
    /\ files' = [files EXCEPT ![h] = NULL]
    /\ call' = [op |-> "fclose", h |-> h]
    /\ UNCHANGED <<source, race, opened, phase, archive, closeCalls, ioFreed, loop>>

----------------------------------------------------------------------------
(* The caller's sequential read loop (README, example 2):                  *)
(*   while (1) { bytes = ziprand_fread(file, buffer, c);                   *)
(*               if (bytes <= 0) break; fwrite(buffer, 1, bytes, out); }   *)

LoopChunks(entry) ==
    ({U64Of(n) : n \in 1..MaxChunk} \cup {U64Of(17), entry.uncompressed_size}) \ {Zero64}

\* the caller enters the loop on a view it has just opened
loop_start(h, c) ==
    /\ phase = "open"
    /\ files[h] # NULL
    /\ files[h].position = Zero64
    /\ loop.st # "run"
    /\ c \in LoopChunks(archive.entries[files[h].entry])
    /\ loop' = [st |-> "run", h |-> h, chunk |-> c, out |-> <<>>, iters |-> 0,
                calls |-> 0]
    /\ call' = [op |-> "loop_start", h |-> h]
    /\ UNCHANGED <<source, race, opened, phase, archive, files, closeCalls, ioFreed>>

\* one iteration: the ziprand_fread call, the break test and the fwrite
loop_step ==
    /\ loop.st = "run"
    /\ \E h \in {loop.h} :
       \E r \in {ziprand_fread_result(src, NoFault, archive, files[h], loop.chunk)} :
           /\ files' = [files EXCEPT ![h] = r.file]
           /\ call' = [op |-> "fread", h |-> h, size |-> loop.chunk, fault |-> NoFault,
                       ret |-> r.ret, data |-> r.data, reads |-> r.reads,
                       pre |-> files[h]]
           /\ loop' = IF r.ret <= 0
                      THEN [loop EXCEPT !.st = "done", !.calls = loop.calls + 1]
                      ELSE [loop EXCEPT !.out = loop.out \o r.data,
                                        !.iters = loop.iters + 1,
                                        !.calls = loop.calls + 1]
    /\ UNCHANGED <<source, race, opened, phase, archive, closeCalls, ioFreed>>

\* the caller closes the view after its loop
loop_fclose ==
    /\ loop.st = "done"
    /\ files' = [files EXCEPT ![loop.h] = NULL]
    /\ loop' = NoLoop
    /\ call' = [op |-> "fclose", h |-> loop.h]
    /\ UNCHANGED <<source, race, opened, phase, archive, closeCalls, ioFreed>>

----------------------------------------------------------------------------
Next ==
    \/ \E env \in OpenEnvs(src) :
          ziprand_open(env.f, env.junk, env.oom, env.calloc0)
    \/ ziprand_close
    \/ ziprand_io_free
    \/ \E h \in Handles, e \in 1..MaxEntries, env \in FopenEnvs(src) :
          ziprand_fopen(h, e, env.f, env.junk, env.oom)
    \/ \E h \in Handles, name \in Names, env \in FopenEnvs(src) :
          ziprand_fopen_by_name(h, name, env.f, env.junk, env.oom)
    \/ \E h \in Handles, size \in ReadSizes, f \in ReadFaults(src) :
          ziprand_fread(h, size, f)
    \/ \E h \in Handles, offset \in ReadOffsets, size \in ReadSizes,
          f \in ReadFaults(src) :
          ziprand_fread_at(h, offset, size, f)
    \/ \E h \in Handles, offset \in SeekOffsets, whence \in Whences :
          ziprand_fseek(h, offset, whence)
    \/ \E h \in Handles : ziprand_ftell(h)
    \/ \E h \in Handles : ziprand_fsize(h)
    \/ \E h \in Handles : ziprand_fclose(h)

Spec == Init /\ [][Next]_vars

\* the caller that opens a view and reads it through with the loop; the
\* loop is sequential code, so an iteration that can run does run
NextLoop ==
    \/ \E env \in OpenEnvs(src) :
          ziprand_open(env.f, env.junk, env.oom, env.calloc0)
    \/ \E h \in Handles, e \in 1..MaxEntries, env \in FopenEnvs(src) :
          loop.st = "idle" /\ ziprand_fopen(h, e, env.f, env.junk, env.oom)
    \/ \E h \in OpenHandles :
          \E c \in LoopChunks(archive.entries[files[h].entry]) : loop_start(h, c)
    \/ loop_step
    \/ loop_fclose

SpecLoop == Init /\ [][NextLoop]_vars /\ WF_vars(loop_step)

----------------------------------------------------------------------------
(* Threads that call ziprand_fopen on the same entry of one archive at the *)
(* same time, each then reading through the view it got.  The library      *)
(* takes no lock: entry->data_offset is a plain uint64_t that one thread   *)
(* stores while others load it.  What such a store looks like to the       *)
(* other threads depends on the build: one 64-bit store, or two 32-bit     *)
(* stores in either order.                                                 *)

Threads == 1..MaxThreads
Builds == {"single", "lo_hi", "hi_lo"}

\* a 64-bit object after one 32-bit half of v was stored into it
StoreLow(w, v) == <<v[1], v[2], w[3], w[4]>>
StoreHigh(w, v) == <<w[1], w[2], v[3], v[4]>>

\* the ZIP64 entry the threads open: stored, unresolved, its local header at
\* offset 2^32
RaceEntry ==
    [name |-> NameA, compressed_size |-> U64Of(3), uncompressed_size |-> U64Of(3),
     offset |-> RaceBase, data_offset |-> Zero64, compression_method |-> 0]

\* get_data_offset on the source whose offset RaceBase is offset 0 of src
get_data_offset_based(entry) ==
    With(get_data_offset(src, NoFault, 0, [entry EXCEPT !.offset = U64Sub(@, RaceBase)]),
         LAMBDA g : [err |-> g.err,
                     data_offset |-> U64Add(g.entry.data_offset, RaceBase)])

\* the archive is open (total_size, which no view operation reads, is the
\* size of the part of the source the model holds)
InitRace ==
    /\ source \in {i \in DOMAIN Sources : Sources[i] = RaceSource}
    /\ phase = "open"
    /\ archive = [entries |-> <<RaceEntry>>, entry_count |-> U64Of(1),
                  total_size |-> src.size]
    /\ files = [h \in Handles |-> NULL]
    /\ closeCalls = 0
    /\ ioFreed = FALSE
    /\ call = NoCall
    /\ loop = NoLoop
    /\ opened = {}
    /\ \E b \in Builds :
           race = [build |-> b,
                   th |-> [t \in Threads |-> [pc |-> "start", v |-> Zero64, used |-> {}]],
                   writes |-> {}]

RaceStep(t, pc, v, used) ==
    race' = [race EXCEPT !.th[t] = [pc |-> pc, v |-> v, used |-> used]]

\* ziprand_fopen up to its test of data_offset
race_fopen_check(t) ==
    /\ race.th[t].pc = "start"
    /\ archive.entries[1].compression_method = 0
    /\ RaceStep(t, IF archive.entries[1].data_offset = Zero64 THEN "resolve" ELSE "alloc",
                Zero64, {})
    /\ UNCHANGED <<source, opened, phase, archive, files, closeCalls, ioFreed, call, loop>>

\* get_data_offset up to its store: the local header is read and the value
\* to store is computed
race_get_data_offset(t) ==
    /\ race.th[t].pc = "resolve"
    /\ \E g \in {get_data_offset_based(archive.entries[1])} :
           IF g.err # ZIPRAND_OK THEN RaceStep(t, "failed", Zero64, {})
           ELSE RaceStep(t, "store", g.data_offset, {})
    /\ UNCHANGED <<source, opened, phase, archive, files, closeCalls, ioFreed, call, loop>>

\* entry->data_offset = ...: the whole store, or its first half
race_store(t) ==
    /\ race.th[t].pc = "store"
    /\ LET v == race.th[t].v
           now == archive.entries[1].data_offset
       IN  /\ archive' = [archive EXCEPT !.entries[1].data_offset =
                             IF race.build = "single" THEN v
                             ELSE IF race.build = "lo_hi" THEN StoreLow(now, v)
                             ELSE StoreHigh(now, v)]
           /\ race' = [race EXCEPT !.th[t].pc = IF race.build = "single" THEN "alloc"
                                                ELSE "store2",
                                   !.writes = @ \cup {v}]
    /\ UNCHANGED <<source, opened, phase, files, closeCalls, ioFreed, call, loop>>

\* the second half of the store
race_store_second(t) ==
    /\ race.th[t].pc = "store2"
    /\ LET v == race.th[t].v
           now == archive.entries[1].data_offset
       IN  archive' = [archive EXCEPT !.entries[1].data_offset =
                          IF race.build = "lo_hi" THEN StoreHigh(now, v)
                          ELSE StoreLow(now, v)]
    /\ RaceStep(t, "alloc", race.th[t].v, {})
    /\ UNCHANGED <<source, opened, phase, files, closeCalls, ioFreed, call, loop>>

\* the view is allocated and returned
race_fopen_return(t) ==
    /\ race.th[t].pc = "alloc"
    /\ RaceStep(t, "view", race.th[t].v, {})
    /\ UNCHANGED <<source, opened, phase, archive, files, closeCalls, ioFreed, call, loop>>

\* ziprand_fread_at on the returned view: it loads entry->data_offset and
\* reads the source from there
race_fread_at(t) ==
    /\ race.th[t].pc = "view"
    /\ RaceStep(t, "done", race.th[t].v, {archive.entries[1].data_offset})
    /\ UNCHANGED <<source, opened, phase, archive, files, closeCalls, ioFreed, call, loop>>

NextRace ==
    \/ \E t \in Threads : race_fopen_check(t)
    \/ \E t \in Threads : race_get_data_offset(t)
    \/ \E t \in Threads : race_store(t)
    \/ \E t \in Threads : race_store_second(t)
    \/ \E t \in Threads : race_fopen_return(t)
    \/ \E t \in Threads : race_fread_at(t)

SpecRace == InitRace /\ [][NextRace]_vars

\* the caller that opens an archive of any shape, once, and looks entries up
InitParse ==
    /\ source \in DOMAIN Sources
    /\ phase = "fresh"
    /\ archive = NULL
    /\ files = [h \in Handles |-> NULL]
    /\ closeCalls = 0
    /\ ioFreed = FALSE
    /\ call = NoCall
    /\ loop = NoLoop
    /\ race = NoRace
    /\ opened = {}

NextParse ==
    \/ \E env \in OpenEnvs(src) :
          call = NoCall /\ ziprand_open(env.f, env.junk, env.oom, env.calloc0)
    \/ ziprand_get_entry_count
    \/ \E name \in Names : find_entry_call(name)
    \/ \E h \in Handles, name \in Names, env \in FopenEnvs(src) :
          ziprand_fopen_by_name(h, name, env.f, env.junk, env.oom)
    \/ \E h \in Handles : ziprand_fclose(h)
    \/ ziprand_close

SpecParse == InitParse /\ [][NextParse]_vars

----------------------------------------------------------------------------
(* Properties *)

IsFopen == call.op \in {"fopen", "fopen_by_name"}

\* C1: ziprand_fread returns exactly what ziprand_fread_at returns at the
\* view's position before the call (count and bytes; for a position of 0
\* that is fread_at(0, n)), and afterwards the position has grown by the
\* returned count when it is positive and is unchanged when it is zero or
\* negative.
C1_FreadIsFreadAtThenAdvance ==
    call.op = "fread" =>
        LET at == ziprand_fread_at_result(src, call.fault, archive, call.pre,
                                          call.pre.position, call.size)
            now == files[call.h]
        IN  /\ call.ret = at.ret
            /\ call.data = at.data
            /\ now.entry = call.pre.entry
            /\ now.position = IF at.ret > 0
                              THEN U64Add(call.pre.position, U64Of(at.ret))
                              ELSE call.pre.position

\* a read in the middle of an entry that returned bytes and moved the view
C1_Witness ==
    /\ call.op = "fread"
    /\ call.ret > 0
    /\ call.pre.position # Zero64
    /\ files[call.h].position # call.pre.position

\* the positions a view could stand at when fread_at is called
ProbePositions == {U64Of(n) : n \in 0..MaxSeek} \cup {Int64Max, Max64}

\* C2: a ziprand_fread_at step changes neither the view (its position), nor
\* the archive and its entries, nor the source; and its result (count,
\* bytes, read issued) is the same whatever position the view stands at.
C2_FreadAtPositionIndependent ==
    /\ [][call'.op = "fread_at" =>
              /\ files' = files
              /\ archive' = archive
              /\ source' = source
              /\ closeCalls' = closeCalls]_vars
    /\ [](call.op = "fread_at" =>
              \A p \in ProbePositions :
                  LET r == ziprand_fread_at_result(src, call.fault, archive,
                              [call.pre EXCEPT !.position = p],
                              call.offset, call.size)
                  IN  /\ r.ret = call.ret
                      /\ r.data = call.data
                      /\ r.reads = call.reads)

\* fread_at returned bytes from an offset other than the view's position,
\* after the view had been moved
C2_Witness ==
    /\ call.op = "fread_at"
    /\ call.ret > 0
    /\ call.pre.position # Zero64
    /\ call.offset # call.pre.position

\* C3: ziprand_fread_at returns 0 and reads nothing when offset >=
\* uncompressed_size; otherwise it issues exactly one source read, at
\* data_offset + offset, for min(size, uncompressed_size - offset) bytes,
\* returns that read's result unchanged, and the requested range ends at or
\* before the entry's last byte.
C3_FreadAtClampsAndDelegates ==
    call.op = "fread_at" =>
        LET entry == archive.entries[call.pre.entry]
            usize == entry.uncompressed_size
            remaining == U64Sub(usize, call.offset)
            n == IF U64Lt(call.size, remaining) THEN call.size ELSE remaining
            addr == U64Add(entry.data_offset, call.offset)
            rd == io_read(src, call.fault, addr, n)
        IN  IF U64Le(usize, call.offset)
            THEN call.ret = 0 /\ call.reads = <<>> /\ call.data = <<>>
            ELSE /\ call.reads = <<[off |-> addr, n |-> n]>>
                 /\ call.ret = rd.ret
                 /\ call.data = rd.data
                 /\ U64Le(n, remaining)
                 /\ U64Le(call.offset, U64Add(call.offset, n))
                 /\ U64Le(U64Add(call.offset, n), usize)

\* a request that reached past the end of the entry and was clamped
C3_Witness ==
    /\ call.op = "fread_at"
    /\ call.reads # <<>>
    /\ U64Lt(call.reads[1].n, call.size)
    /\ call.ret > 0

\* the entry's data lies inside the source, as in a well-formed container
\* where the source keeps the byte its read callback serves at offset w
SrcPos(w) == IF src.shift = 0 THEN w ELSE U64Add(w, U64Of(src.shift))

InRange(entry) ==
    /\ IsSmall(entry.uncompressed_size)
    /\ IsSmall(SrcPos(entry.data_offset))
    /\ ToNat(entry.uncompressed_size) <= src.size
    /\ ToNat(SrcPos(entry.data_offset)) <= src.size - ToNat(entry.uncompressed_size)

\* the bytes of the source that make up the entry's content
EntryContent(entry) ==
    [k \in 1..ToNat(entry.uncompressed_size) |->
        SrcByte(src, ToNat(SrcPos(entry.data_offset)) + k - 1)]

\* C4: the loop "ziprand_fread(c) until it returns 0" on a fresh view of a
\* stored entry, for every chunk size c >= 1, terminates; when the entry's
\* data lies inside the source (which satisfies every read) it makes at most
\* uncompressed_size + 1 calls, every call but the last returning bytes, ends
\* with position = uncompressed_size, and the chunks concatenate to the bytes
\* of one fread_at(0, uncompressed_size).
C4_SequentialReadEqualsWholeRead ==
    /\ (loop.st = "run") ~> (loop.st = "done")
    /\ [](loop.st \in {"run", "done"} =>
        LET file == files[loop.h]
            entry == archive.entries[file.entry]
            whole == ziprand_fread_at_result(src, NoFault, archive, file, Zero64,
                                             entry.uncompressed_size)
        IN  InRange(entry) =>
              /\ file.position = U64Of(Len(loop.out))
              /\ Len(loop.out) <= ToNat(entry.uncompressed_size)
              /\ loop.iters <= Len(loop.out)
              /\ loop.calls <= ToNat(entry.uncompressed_size) + 1
              /\ loop.st = "run" => loop.calls = loop.iters
              /\ loop.st = "done" =>
                    /\ loop.calls = loop.iters + 1
                    /\ file.position = entry.uncompressed_size
                    /\ loop.out = whole.data
                    /\ whole.ret = ToNat(entry.uncompressed_size)
                    /\ loop.out = EntryContent(entry))

\* a 3-byte entry read in chunks of 2: two reads with bytes, then the 0
C4_Witness ==
    /\ loop.st = "done"
    /\ loop.chunk = U64Of(2)
    /\ loop.iters = 2
    /\ Len(loop.out) = 3
    /\ InRange(archive.entries[files[loop.h].entry])

\* base + offset < 0 for the base the whence selects
SeekBase(c) ==
    IF c.whence = SEEK_SET THEN Zero64
    ELSE IF c.whence = SEEK_CUR THEN c.pre.position
    ELSE archive.entries[c.pre.entry].uncompressed_size

SeekTargetBelowZero(c) == I64Neg(c.offset) /\ U64Lt(SeekBase(c), U64Neg(c.offset))

\* base + offset > uncompressed_size (the base never exceeds the size)
SeekTargetBeyondEnd(c) ==
    LET usize == archive.entries[c.pre.entry].uncompressed_size
    IN  ~I64Neg(c.offset) /\ U64Lt(U64Sub(usize, SeekBase(c)), c.offset)

SeekTargetAtEnd(c) ==
    LET usize == archive.entries[c.pre.entry].uncompressed_size
    IN  \/ ~I64Neg(c.offset) /\ U64Sub(usize, SeekBase(c)) = c.offset
        \/ c.offset = Zero64 /\ SeekBase(c) = usize

\* C5: for SEEK_SET, SEEK_CUR and SEEK_END alike, a target position below
\* zero makes ziprand_fseek set the position to 0 and return 0.
C5_SeekBelowZeroClamps ==
    (call.op = "fseek" /\ call.whence \in {SEEK_SET, SEEK_CUR, SEEK_END}
        /\ SeekTargetBelowZero(call)) =>
        /\ call.ret = Zero64
        /\ files[call.h].position = Zero64

\* C6: a target beyond uncompressed_size, or a whence that is none of the
\* three, makes ziprand_fseek return a negative value and leave the position
\* as it was; a target equal to uncompressed_size succeeds and is returned.
C6_SeekBeyondEndFails ==
    call.op = "fseek" =>
        LET usize == archive.entries[call.pre.entry].uncompressed_size
            valid == call.whence \in {SEEK_SET, SEEK_CUR, SEEK_END}
        IN  /\ (~valid \/ SeekTargetBeyondEnd(call)) =>
                  /\ I64Neg(call.ret)
                  /\ files[call.h].position = call.pre.position
            /\ (valid /\ SeekTargetAtEnd(call)) =>
                  /\ files[call.h].position = usize
                  /\ call.ret = usize
                  /\ ~I64Neg(call.ret)

\* C7: ziprand_fopen and ziprand_fopen_by_name on an entry whose
\* compression_method is not 0 return no handle, issue no source read and
\* leave the entry (its data_offset) as it was.
C7_FopenRefusesCompressed ==
    (IsFopen /\ call.e # 0) =>
        (call.preEntry.compression_method # 0 =>
            /\ ~call.ok
            /\ call.reads = <<>>
            /\ archive.entries[call.e] = call.preEntry
            /\ files[call.h] = NULL)

C7_Witness ==
    /\ call.op = "fopen_by_name"
    /\ call.e # 0
    /\ call.preEntry.compression_method = 8
    /\ ~call.ok

\* the Local File Header lengths as the source holds them at the entry's
\* local_header_offset
LocalNameLen(entry) ==
    SrcByte(src, ToNat(SrcPos(entry.offset)) + 26) + 256 * SrcByte(src, ToNat(SrcPos(entry.offset)) + 27)
LocalExtraLen(entry) ==
    SrcByte(src, ToNat(SrcPos(entry.offset)) + 28) + 256 * SrcByte(src, ToNat(SrcPos(entry.offset)) + 29)
LocalHeaderPresent(entry) ==
    /\ IsSmall(SrcPos(entry.offset))
    /\ ToNat(SrcPos(entry.offset)) <= src.size - LOCAL_HEADER_FIXED
    /\ <<SrcByte(src, ToNat(SrcPos(entry.offset))), SrcByte(src, ToNat(SrcPos(entry.offset)) + 1),
         SrcByte(src, ToNat(SrcPos(entry.offset)) + 2), SrcByte(src, ToNat(SrcPos(entry.offset)) + 3)>>
       = <<80, 75, 3, 4>>

\* C8: after a successful ziprand_fopen the entry's data_offset is
\* local_header_offset + 30 + the two 16-bit lengths at offsets 26 and 28 of
\* the Local File Header in the source; and ziprand_fopen returns no handle
\* when 30 bytes cannot be read there or the signature is not 0x04034b50.
C8_DataOffsetFromLocalHeader ==
    (IsFopen /\ call.e # 0) =>
        LET entry == archive.entries[call.e]
        IN  /\ call.ok =>
                  /\ LocalHeaderPresent(entry)
                  /\ entry.data_offset =
                        U64Add(entry.offset,
                               U64Of(LOCAL_HEADER_FIXED + LocalNameLen(entry)
                                     + LocalExtraLen(entry)))
            /\ ~LocalHeaderPresent(entry) =>
                  /\ ~call.ok
                  /\ files[call.h] = NULL

\* the first open of an entry whose local header has an extra field that
\* its central directory entry lacks
C8_Witness ==
    /\ call.op = "fopen"
    /\ call.ok
    /\ call.preEntry.data_offset = Zero64
    /\ LocalExtraLen(archive.entries[call.e]) = 2
    /\ call.reads # <<>>

\* C9: ziprand_open is all-or-nothing: when it returns from any step but
\* the last there is no archive, and the source's close callback has not
\* run; when it succeeds the archive holds every announced entry.
C9_OpenAllOrNothing ==
    call.op = "open" =>
        /\ call.stage # "ok" =>
              /\ ~call.ok
              /\ archive = NULL
              /\ phase = "fresh"
              /\ closeCalls = call.preCloseCalls
        /\ call.stage = "ok" =>
              /\ call.ok
              /\ archive # NULL
              /\ archive.entry_count = U64Of(Len(archive.entries))

\* the open failed on an entry after it had parsed earlier ones
C9_Witness ==
    /\ call.op = "open"
    /\ call.stage = "entry"
    /\ call.nparsed > 0
    /\ archive = NULL

\* C10: the close callback of a source handed to a successful ziprand_open
\* runs on its context exactly once, at archive teardown: never while the
\* archive is open and once, not twice, from ziprand_close on.
C10_CloseExactlyOnce ==
    (src.has_close /\ phase \in {"open", "closed"}) =>
        /\ phase = "open" => closeCalls = 0
        /\ phase = "closed" => closeCalls = 1

----------------------------------------------------------------------------
(* Properties of the directory locator and parser.  What a source holds is *)
(* read off its bytes directly, without the library's scan.                *)

SrcLE16(s, p) == SrcByte(s, p) + 256 * SrcByte(s, p + 1)
SrcLE32(s, p) == <<SrcLE16(s, p), SrcLE16(s, p + 2), 0, 0>>
SrcLE64(s, p) == <<SrcLE16(s, p), SrcLE16(s, p + 2), SrcLE16(s, p + 4), SrcLE16(s, p + 6)>>

\* the first offset of the last min(size, 65557) bytes of a source
WindowStart(s) == IF s.size < EOCD_MAX_SEARCH THEN 0 ELSE s.size - EOCD_MAX_SEARCH

\* the offsets in that window at which the bytes 50 4B 05 06 occur
SignatureOffsets(s) ==
    {p \in DOMAIN s.mem : /\ p >= WindowStart(s)
                          /\ p + 4 <= s.size
                          /\ SrcLE32(s, p) = EOCD_SIGNATURE}

\* the end record of a source that has one
EocdOffset(s) == SetMax(SignatureOffsets(s))

\* a call the source answered in full and that found the memory it asked for
QuietOpen(c) == c.op = "open" /\ c.f = NoFault /\ c.oom = NoOom

\* n directory records, each with its signature, lie back to back from off
\* and end at or before the offset end
RECURSIVE CdRecordsFrom(_, _, _, _)
CdRecordsFrom(s, off, n, end) ==
    IF n = 0 THEN off <= end
    ELSE /\ off + CD_HEADER_FIXED <= end
         /\ SrcLE32(s, off) = CENTRAL_DIR_SIGNATURE
         /\ CdRecordsFrom(s, off + CD_HEADER_FIXED + SrcLE16(s, off + 28)
                                 + SrcLE16(s, off + 30) + SrcLE16(s, off + 32),
                          n - 1, end)

\* a legacy archive: its end record is whole, the 32-bit directory offset is
\* not 0xFFFFFFFF, and the directory holds as many records as it counts
LegacyArchive(s) ==
    /\ SignatureOffsets(s) # {}
    /\ EocdOffset(s) + EOCD_FIXED <= s.size
    /\ SrcLE32(s, EocdOffset(s) + 16) # Esc32
    /\ IsSmall(SrcLE32(s, EocdOffset(s) + 16))
    /\ CdRecordsFrom(s, ToNat(SrcLE32(s, EocdOffset(s) + 16)),
                     SrcLE16(s, EocdOffset(s) + 10), EocdOffset(s))

\* C11: on a legacy archive with a well-formed central directory
\* ziprand_open succeeds and ziprand_get_entry_count returns the 16-bit
\* count of the end record, whatever that count is.
C11_LegacyCountReported ==
    LegacyArchive(src) =>
        LET count == U64Of(SrcLE16(src, EocdOffset(src) + 10))
        IN  /\ QuietOpen(call) =>
                  /\ call.ok
                  /\ archive # NULL
                  /\ ziprand_get_entry_count_result(archive) = count
            /\ (call.op = "get_entry_count" /\ archive # NULL) => call.ret = count

\* a ZIP64 archive: the 20 bytes before the end record are a ZIP64 locator
\* and the locator points at a ZIP64 end record
Zip64RecordOffset(s) == SrcLE64(s, EocdOffset(s) - ZIP64_LOCATOR_WINDOW + 8)

Zip64Archive(s) ==
    /\ SignatureOffsets(s) # {}
    /\ EocdOffset(s) + EOCD_FIXED <= s.size
    /\ EocdOffset(s) >= ZIP64_LOCATOR_WINDOW
    /\ SrcLE32(s, EocdOffset(s) - ZIP64_LOCATOR_WINDOW) = ZIP64_EOCD_LOCATOR_SIGNATURE
    /\ IsSmall(Zip64RecordOffset(s))
    /\ ToNat(Zip64RecordOffset(s)) + ZIP64_EOCD_FIXED <= s.size
    /\ SrcLE32(s, ToNat(Zip64RecordOffset(s))) = ZIP64_EOCD_SIGNATURE

\* C12: on a ZIP64 archive ziprand_open takes the entry count and the
\* directory offset from the ZIP64 end record, whichever of the legacy
\* fields are saturated, also when only the 16-bit count is 0xFFFF.
C12_Zip64RecordUsed ==
    (Zip64Archive(src) /\ QuietOpen(call)) =>
        LET z == ToNat(Zip64RecordOffset(src))
        IN  /\ call.cd.err = ZIPRAND_OK
            /\ call.cd.num_entries = SrcLE64(src, z + 32)
            /\ call.cd.cd_offset = SrcLE64(src, z + 48)
            /\ call.ok => archive.entry_count = SrcLE64(src, z + 32)

\* the most reads one backward scan of the window can take
MaxScanReads == (EOCD_MAX_SEARCH + EOCD_CHUNK - 1) \div EOCD_CHUNK

\* a read that asks only for bytes of the last min(size, 65557) of the source
ReadInWindow(s, rd) ==
    /\ IsSmall(rd.off) /\ IsSmall(rd.n)
    /\ ToNat(rd.off) >= WindowStart(s)
    /\ ToNat(rd.off) <= s.size - ToNat(rd.n)

\* C13: on a source of any size that holds no end-record signature in its
\* last min(size, 65557) bytes, ziprand_open makes finitely many reads, all
\* of them inside that window, returns no archive, and fails as an invalid
\* archive.
C13_NoSignatureIsInvalidArchive ==
    (QuietOpen(call) /\ SignatureOffsets(src) = {}) =>
        /\ ~call.ok
        /\ archive = NULL
        /\ call.stage = "cd_info"
        /\ call.err = ZIPRAND_ERR_INVALID_ZIP
        /\ Len(call.reads) <= MaxScanReads
        /\ \A k \in DOMAIN call.reads : ReadInWindow(src, call.reads[k])

\* the scan of a source longer than the window, which holds the signature
\* bytes before the window only, has ended
C13_Witness ==
    /\ QuietOpen(call)
    /\ SignatureOffsets(src) = {}
    /\ src.size > EOCD_MAX_SEARCH
    /\ SrcLE32(src, 0) = EOCD_SIGNATURE
    /\ Len(call.reads) = MaxScanReads

\* the first entry whose stored name is, byte for byte, the name asked for
\* (0 when there is none)
FirstExactMatch(arch, name) ==
    LET exact == {i \in 1..Len(arch.entries) : arch.entries[i].name = name}
    IN  IF exact = {} THEN 0 ELSE SetMin(exact)

\* C14: ziprand_find_entry returns the entry of smallest index whose name
\* equals the name asked for byte for byte, none exactly when there is no
\* such entry, and ziprand_fopen_by_name opens that same entry.
C14_FindEntryFirstExactMatch ==
    /\ call.op = "find_entry" => call.e = FirstExactMatch(archive, call.name)
    /\ call.op = "fopen_by_name" =>
           /\ call.e = FirstExactMatch(archive, call.name)
           /\ call.ok => files[call.h].entry = FirstExactMatch(archive, call.name)

\* C16: find_eocd reports the greatest offset of the window at which the
\* bytes 50 4B 05 06 occur, wherever they lie relative to the 8192-byte
\* chunks of the scan, also when they lie across a chunk boundary.
C16_FindEocdGreatestOffset ==
    (QuietOpen(call) /\ SignatureOffsets(src) # {}) =>
        /\ call.cd.loc.err = ZIPRAND_OK
        /\ call.cd.loc.eocd_offset = EocdOffset(src)

\* a read that returned an error or fewer bytes than it was asked for
ShortOrFailed(rd) == ~IsSmall(rd.n) \/ rd.ret # ToNat(rd.n)

\* C17: when a source read made while ziprand_open locates and parses the
\* directory returns an error or fewer bytes than requested (a positive
\* short count included), ziprand_open returns no archive and fails as an
\* I/O error.
C17_ShortReadIsIoError ==
    (call.op = "open" /\ \E k \in DOMAIN call.reads : ShortOrFailed(call.reads[k])) =>
        /\ ~call.ok
        /\ archive = NULL
        /\ call.err = ZIPRAND_ERR_IO

\* the k-th 64-bit value of the sub-record, k counted over the escaped
\* fields in the order uncompressed size, compressed size, local offset
EscRankC(c) == 1 + (IF c.u THEN 1 ELSE 0)
EscRankL(c) == 1 + (IF c.u THEN 1 ELSE 0) + (IF c.c THEN 1 ELSE 0)

\* what the entry built from the directory record of case c must hold
EscExpected(c) ==
    [uncompressed_size |-> IF c.u THEN EscValues[1] ELSE EscPlainUnc,
     compressed_size |-> IF c.c THEN EscValues[EscRankC(c)] ELSE EscPlainCmp,
     offset |-> IF c.l THEN EscValues[EscRankL(c)] ELSE EscPlainLoc]

\* C18: with a 0x0001 extra sub-record that carries enough data, every
\* escaped field among uncompressed size, compressed size and local header
\* offset receives the 8-byte value of its rank among the escaped fields in
\* that order, a field that is not escaped keeps its 32-bit value and uses
\* up no data, and sub-records with other ids before it are stepped over.
C18_Zip64ExtraByRank ==
    (src = EscSource /\ QuietOpen(call)) =>
        /\ call.ok
        /\ Len(archive.entries) = Len(EscCases)
        /\ \A k \in 1..Len(EscCases) :
               LET e == archive.entries[k]
                   x == EscExpected(EscCases[k])
               IN  /\ e.uncompressed_size = x.uncompressed_size
                   /\ e.compressed_size = x.compressed_size
                   /\ e.offset = x.offset

\* the archive is open; its fifth record escapes the first and third field
\* behind a foreign sub-record and holds the second value as its offset
C18_Witness ==
    /\ src = EscSource
    /\ QuietOpen(call)
    /\ call.ok
    /\ EscCases[5] = [u |-> TRUE, c |-> FALSE, l |-> TRUE, pre |-> 1]
    /\ archive.entries[5].offset = EscValueB
    /\ archive.entries[5].compressed_size = EscPlainCmp

\* C19: every index at which ziprand_open reads one of its buffers lies
\* within the bytes that were read into that buffer: the 8192-byte scan
\* chunk, the 20-byte ZIP64 locator window, the extra-field buffer.
C19_BufferReadsInBounds ==
    call.op = "open" => call.oob = {}

\* C20: when find_eocd succeeds with offset p, the 16-bit count it reports
\* is the little-endian value of the source bytes p + 10 and p + 11,
\* wherever the signature lies in its chunk.
C20_CountFromSourceBytes ==
    (QuietOpen(call) /\ call.cd.loc.err = ZIPRAND_OK
        /\ call.cd.loc.eocd_offset + 12 <= src.size) =>
        call.cd.loc.num_entries = SrcLE16(src, call.cd.loc.eocd_offset + 10)

\* what ziprand_fopen stores in the entry when one thread runs alone
RaceSequentialResult == get_data_offset_based(RaceEntry).data_offset

\* C15: whichever way two or more threads interleave in ziprand_fopen on
\* the same unresolved stored entry of a stable source, every write to
\* data_offset stores the same value, the final data_offset is the one a
\* single thread would leave, and no returned view reads the source
\* through any other data_offset.
C15_RacingFopenAgree ==
    race.build \in Builds =>
        /\ race.writes \subseteq {RaceSequentialResult}
        /\ (\A t \in Threads : race.th[t].pc = "done") =>
               archive.entries[1].data_offset = RaceSequentialResult
        /\ \A t \in Threads : race.th[t].used \subseteq {RaceSequentialResult}

\* C21: after the first successful ziprand_fopen on an entry, every later
\* ziprand_fopen on that entry issues no source read and leaves data_offset
\* as it is, whatever 64-bit local header offset the directory declares;
\* the 0 that marks an unresolved entry is never what a successful
\* resolution stores.
C21_LocalHeaderReadOnce ==
    /\ (IsFopen /\ call.preOpened) =>
           /\ call.reads = <<>>
           /\ archive.entries[call.e].data_offset = call.preEntry.data_offset
    /\ phase = "open" =>
           \A e \in opened : archive.entries[e].data_offset # Zero64

\* C22: every view's position lies between 0 and the uncompressed size of
\* its entry, whatever ziprand_fopen, ziprand_fseek, ziprand_fread and
\* ziprand_fread_at calls came before, and ziprand_ftell returns exactly
\* that position (an int64_t: a value that is not negative).
C22_PositionWithinEntry ==
    /\ \A h \in Handles :
           (phase = "open" /\ files[h] # NULL) =>
               U64Le(files[h].position,
                     archive.entries[files[h].entry].uncompressed_size)
    /\ call.op = "ftell" =>
           /\ call.ret = files[call.h].position
           /\ ~I64Neg(call.ret)

====
